---- MODULE Spec2Model ----
(***************************************************************************)
(* Weather ETL pipeline: the incremental Bronze / Silver / Gold layer      *)
(* processors (bronze.py, silver.py, gold.py) over hive-partitioned        *)
(* parquet datasets and the pipeline_metadata watermark table              *)
(* (metadata.py), and the concurrent ingestion clients (ingestion.py,      *)
(* main.py).                                                               *)
(*                                                                         *)
(* A partition key (city, date) is an element of Keys.  A dataset maps     *)
(* each key to the bag of rows stored in the files of its partition        *)
(* directory; a bag is a function from the rows present to their counts.   *)
(* Column values are abstracted to NULL / non-NULL.                       *)
(*                                                                         *)
(* The SQL statements are modelled by what DuckDB does with them:          *)
(*   - read_parquet over a glob that matches no file raises IOException;   *)
(*   - a query naming a column the files do not have raises BinderError;   *)
(*   - COPY ... (PARTITION_BY ...) into a directory that already holds     *)
(*     files raises IOException, unless OVERWRITE is given, in which case  *)
(*     every file under the target directory is removed first;             *)
(*   - INSERT OR REPLACE replaces the row with the same primary key.       *)
(***************************************************************************)
EXTENDS Integers, FiniteSets, Sequences, TLC

\* ---------------------------------------------------------------- bounds
NumKeys == 2
MaxRows == 2
MaxTime == 1
NumLocations == 2

\* ------------------------------------------------------------- constants
retries == 3
MAX_RETRIES == 3

Keys == 1..NumKeys
Locations == 1..NumLocations
NoKey == 0
NoTime == -1
Layers == {"bronze", "silver", "gold"}

Null == "null"
Val == "val"
Absent == "absent"

\* ------------------------------------------------------------------ rows
\* Files under data/: the columns the Bronze and Silver queries read.
DataRows == [temperature : {Null, Val}, temperature_2m : {Null, Val}]

\* Files under silver/: the columns the Gold query reads.  A file written by
\* silver.process_partition has a temperature column and no humidity column
\* (humidity = Absent).
SilverRows == [temperature : {Null, Val}, humidity : {Absent, Null, Val}]

\* ------------------------------------------------------------------ bags
EmptyRows == [r \in {} |-> 0]

RECURSIVE SumOver(_, _)
SumOver(b, S) ==
    IF S = {} THEN 0
    ELSE LET r == CHOOSE x \in S : TRUE IN b[r] + SumOver(b, S \ {r})

RowCount(b) == SumOver(b, DOMAIN b)

Append2(a, b) ==
    [r \in (DOMAIN a) \cup (DOMAIN b) |->
        (IF r \in DOMAIN a THEN a[r] ELSE 0) + (IF r \in DOMAIN b THEN b[r] ELSE 0)]

EmptyDataset == [k \in Keys |-> EmptyRows]

VARIABLES
    data,       \* files under data/    : Keys -> bag of DataRows
    silver,     \* files under silver/  : Keys -> bag of SilverRows
    gold,       \* files under gold/    : Keys -> bag of gold rows
    meta,       \* pipeline_metadata: set of [layer, key, processed_at]
    now,        \* CURRENT_TIMESTAMP
    pc,         \* position of the call in progress
    cur,        \* the call in progress
    tmp,        \* tmp_bronze / tmp_silver / tmp_gold of the call in progress
    stable,     \* per layer: an incremental run returned and its upstream is unchanged since
    unmarked,   \* the (layer, key) an incremental run left before its INSERT, until the layer's next run
    client,     \* which ingestion client runs: "ingestion" (httpx) or "main" (aiohttp)
    attempts,   \* per location: HTTP requests issued so far
    task,       \* per location: "running", "returned" or "raised"
    lastErr,    \* per location: how the latest request failed
    batch,      \* fetch_multiple / extract_weather: "running", "returned" or "raised"
    results,    \* the locations in the value the batch returned
    phase,      \* run_pipeline: "extract", "transform", "load", "ended" or "raised"
    loaded,     \* the cities whose data/city=<c>/date=<today>/weather.parquet run_pipeline wrote
    shutdown    \* shutdown_event is set

layerVars == <<data, silver, gold, meta, now, pc, cur, tmp, stable, unmarked>>

fetchVars == <<client, attempts, task, lastErr, batch, results, phase, loaded, shutdown>>

vars == <<data, silver, gold, meta, now, pc, cur, tmp, stable, unmarked,
          client, attempts, task, lastErr, batch, results, phase, loaded, shutdown>>

\* ------------------------------------------------- DuckDB: datasets
\* Some file matches '<root>/**/*.parquet'.
HasFiles(ds) == \E k \in Keys : DOMAIN ds[k] # {}

\* SELECT DISTINCT city, date FROM read_parquet(glob, hive_partitioning=true)
Discover(ds) == {k \in Keys : DOMAIN ds[k] # {}}

\* COPY t TO root (FORMAT PARQUET, PARTITION_BY (city, date) [, OVERWRITE TRUE]):
\* without OVERWRITE a target directory that holds files is refused.
CopyRaises(ds, overwrite) == ~overwrite /\ HasFiles(ds)

\* With OVERWRITE every file under the target directory is removed first; the
\* rows of t (all of key k) become one new file in k's partition directory.
CopyResult(ds, k, rows, overwrite) ==
    [kk \in Keys |->
        IF kk = k THEN (IF overwrite THEN rows ELSE Append2(ds[kk], rows))
        ELSE IF overwrite THEN EmptyRows
        ELSE ds[kk]]

\* A plain INSERT that adds the row next to the one with the same key.
Upsert_insert(m, layer, k, at) ==
    m \cup {[layer |-> layer, key |-> k, processed_at |-> at]}

\* The processed_at of the row pipeline_metadata holds for (layer, k), if any.
ProcessedAt(m, layer, k) ==
    LET old == {x \in m : x.layer = layer /\ x.key = k}
    IN IF old = {} THEN NoTime ELSE (CHOOSE x \in old : TRUE).processed_at

\* INSERT OR REPLACE INTO pipeline_metadata VALUES (layer, city, date, CURRENT_TIMESTAMP)
Upsert(m, layer, k, at) ==
    {x \in m : ~(x.layer = layer /\ x.key = k)}
        \cup {[layer |-> layer, key |-> k, processed_at |-> at]}

\* A get_processed_partitions copied from bronze.py with its WHERE clause unchanged.
get_processed_partitions_bronze_only(layer) ==
    {x.key : x \in {y \in meta : y.layer = "bronze"}}

\* SELECT city, date FROM pipeline_metadata WHERE layer = <layer>
get_processed_partitions(layer) == {x.key : x \in {y \in meta : y.layer = layer}}

\* ------------------------------------------------------ layer wiring
Upstream(layer) == IF layer = "gold" THEN silver ELSE data

Output(layer) ==
    CASE layer = "bronze" -> data
      [] layer = "silver" -> silver
      [] OTHER -> gold

\* Only silver.py passes OVERWRITE TRUE to COPY.
Overwrites(layer) == layer = "silver"

\* ------------------------------------------------------------ bronze
\* CREATE OR REPLACE TABLE tmp_bronze AS SELECT * ... WHERE city = k.city AND date = k.date
tmp_bronze(k) == data[k]

BronzeValidate(t) == IF RowCount(t) = 0 THEN "ValueError: empty" ELSE "none"

BronzeWarns(t) == \E r \in DOMAIN t : r.temperature = Null

\* ------------------------------------------------------------ silver
SilverCast(r) == [temperature |-> r.temperature_2m, humidity |-> Absent]

SilverKeep(r) == r.temperature_2m # Null

\* SELECT <casts> FROM read_parquet(...) WHERE city, date AND temperature_2m IS NOT NULL
tmp_silver(k) ==
    LET kept == {r \in DOMAIN data[k] : SilverKeep(r)}
    IN [s \in {SilverCast(r) : r \in kept} |->
           SumOver(data[k], {r \in kept : SilverCast(r) = s})]

\* silver.process_partition without its row_count check.
SilverValidate_no_check(t) == "none"

SilverValidate(t) == IF RowCount(t) = 0 THEN "ValueError: empty" ELSE "none"

\* -------------------------------------------------------------- gold
\* The files under silver/ have a humidity column.
SilverHasHumidity == \A k \in Keys : \A r \in DOMAIN silver[k] : r.humidity # Absent

\* AVG / MAX / MIN skip NULLs and are NULL when every input is NULL.
Aggregate(values) == IF \E v \in values : v # Null THEN Val ELSE Null

TempOf(b) == {r.temperature : r \in DOMAIN b}

HumOf(b) == {r.humidity : r \in DOMAIN b}

\* GROUP BY city, date over the rows of one key: one row, or none.
tmp_gold(k) ==
    IF DOMAIN silver[k] = {} THEN EmptyRows
    ELSE LET row == [avg_temp |-> Aggregate(TempOf(silver[k])),
                     max_temp |-> Aggregate(TempOf(silver[k])),
                     min_temp |-> Aggregate(TempOf(silver[k])),
                     avg_humidity |-> Aggregate(HumOf(silver[k])),
                     record_count |-> RowCount(silver[k])]
         IN [r \in {row} |-> 1]

GoldValidate(t) ==
    IF RowCount(t) = 0 THEN "ValueError: empty"
    ELSE IF \E r \in DOMAIN t : r.avg_temp = Null THEN "ValueError: null averages"
    ELSE "none"

\* --------------------------------------------- the three statements
\* What CREATE OR REPLACE TABLE tmp_<layer> raises, if anything.
QueryError(layer) ==
    IF ~HasFiles(Upstream(layer)) THEN "IOException"
    ELSE IF layer = "gold" /\ ~SilverHasHumidity THEN "BinderError"
    ELSE "none"

Query(layer, k) ==
    CASE layer = "bronze" -> tmp_bronze(k)
      [] layer = "silver" -> tmp_silver(k)
      [] OTHER -> tmp_gold(k)

ValidationError(layer, t) ==
    CASE layer = "bronze" -> BronzeValidate(t)
      [] layer = "silver" -> SilverValidate(t)
      [] OTHER -> GoldValidate(t)

\* ------------------------------------------------------------- state
NoneLeft == [layer |-> "none", key |-> NoKey]

NoCall ==
    [layer |-> "none", mode |-> "none", fr |-> FALSE, again |-> FALSE,
     avail |-> {}, pend |-> {}, todo |-> {}, key |-> NoKey, err |-> "none",
     called |-> {}, marked |-> {}, warned |-> FALSE, replaced |-> NoTime]

\* The files a sequence of (key, row) pairs puts under each key's directory.
PlaceRows(p) ==
    [k \in Keys |->
        LET S == {i \in DOMAIN p : p[i][1] = k}
        IN [r \in {p[i][2] : i \in S} |-> Cardinality({i \in S : p[i][2] = r})]]

\* silver/ may already hold files whose schema has the humidity column the
\* Gold query names; data/ holds what ingestion wrote.  pipeline_metadata is
\* freshly created and gold/ is empty.
EarlierSilverRows == {r \in SilverRows : r.humidity # Absent}

NoFetch ==
    /\ client = "none"
    /\ attempts = [l \in Locations |-> 0]
    /\ task = [l \in Locations |-> "idle"]
    /\ lastErr = [l \in Locations |-> "none"]
    /\ batch = "idle"
    /\ results = {}
    /\ phase = "none"
    /\ loaded = {}
    /\ shutdown = FALSE

Init ==
    /\ NoFetch
    /\ \E nd \in 0..MaxRows : \E ns \in 0..(MaxRows - nd) :
         \E pd \in [1..nd -> Keys \X DataRows] :
           \E ps \in [1..ns -> Keys \X EarlierSilverRows] :
              /\ data = PlaceRows(pd)
              /\ silver = PlaceRows(ps)
    /\ gold = EmptyDataset
    /\ meta = {}
    /\ now = 0
    /\ pc = "idle"
    /\ cur = NoCall
    /\ tmp = EmptyRows
    /\ stable = [l \in Layers |-> FALSE]
    /\ unmarked = NoneLeft

\* ------------------------------------------------------- metadata
\* CREATE OR REPLACE TABLE pipeline_metadata: the table starts over empty.
initialize_metadata_replace(m) == {}

\* CREATE TABLE IF NOT EXISTS pipeline_metadata (...): the table exists
\* since the store was set up, and the statement leaves it as it is.
initialize_metadata(m) == m

\* initialize_metadata(con) called again on the existing store.
InitializeMetadata ==
    /\ pc = "idle"
    /\ meta' = initialize_metadata(meta)
    /\ pc' = "done"
    /\ cur' = [NoCall EXCEPT !.mode = "init"]
    /\ UNCHANGED <<data, silver, gold, now, tmp, stable, unmarked>>
    /\ UNCHANGED fetchVars

\* ------------------------------------------------------------- run()
StartRun(layer, fr) ==
    /\ pc = "idle"
    /\ IF ~HasFiles(Upstream(layer))
       THEN /\ pc' = "raised"
            /\ cur' = [NoCall EXCEPT !.layer = layer, !.mode = "run", !.fr = fr,
                                     !.again = stable[layer], !.err = "IOException"]
       ELSE LET available == Discover(Upstream(layer))
                to_process == IF fr THEN available
                              ELSE available \ get_processed_partitions(layer)
            IN /\ pc' = "loop"
               /\ cur' = [NoCall EXCEPT !.layer = layer, !.mode = "run", !.fr = fr,
                                        !.again = stable[layer], !.avail = available,
                                        !.pend = to_process, !.todo = to_process]
    /\ unmarked' = IF ~fr /\ unmarked.layer = layer THEN NoneLeft ELSE unmarked
    /\ UNCHANGED <<data, silver, gold, meta, now, tmp, stable>>
    /\ UNCHANGED fetchVars

BronzeRun == \E fr \in BOOLEAN : StartRun("bronze", fr)

SilverRun == StartRun("silver", FALSE)

\* silver.run(con) has no full_refresh parameter: passing one is a TypeError.
SilverRunFullRefresh ==
    /\ pc = "idle"
    /\ pc' = "raised"
    /\ cur' = [NoCall EXCEPT !.layer = "silver", !.mode = "run", !.fr = TRUE,
                             !.err = "TypeError"]
    /\ UNCHANGED <<data, silver, gold, meta, now, tmp, stable, unmarked>>
    /\ UNCHANGED fetchVars

GoldRun == \E fr \in BOOLEAN : StartRun("gold", fr)

\* process_partition(con, city, date) called on its own.
ProcessPartitionCall ==
    /\ pc = "idle"
    /\ \E layer \in Layers : \E k \in Keys :
         cur' = [NoCall EXCEPT !.layer = layer, !.mode = "direct",
                               !.pend = {k}, !.todo = {k}]
    /\ pc' = "loop"
    /\ UNCHANGED <<data, silver, gold, meta, now, tmp, stable, unmarked>>
    /\ UNCHANGED fetchVars

\* ------------------------------------------------ process_partition
\* process_partition for key k is left before its INSERT (an exception, or
\* the process dies): an incremental run leaves k without a watermark.
LeftUnmarked(k) ==
    IF cur.mode = "run" /\ ~cur.fr
    THEN [layer |-> cur.layer, key |-> k]
    ELSE unmarked

\* for city, date in to_process: ... CREATE OR REPLACE TABLE tmp_<layer> AS ...
CreateTmp ==
    /\ pc = "loop"
    /\ \E k \in cur.todo :
         LET e == QueryError(cur.layer)
         IN /\ cur' = [cur EXCEPT !.key = k, !.todo = @ \ {k},
                                  !.called = @ \cup {k}, !.err = e]
            /\ IF e = "none"
               THEN pc' = "validate" /\ tmp' = Query(cur.layer, k)
                    /\ unmarked' = unmarked
               ELSE pc' = "raised" /\ tmp' = tmp
                    /\ unmarked' = LeftUnmarked(k)
    /\ UNCHANGED <<data, silver, gold, meta, now, stable>>
    /\ UNCHANGED fetchVars

Validate ==
    /\ pc = "validate"
    /\ LET e == ValidationError(cur.layer, tmp)
       IN /\ cur' = [cur EXCEPT !.err = e,
                                !.warned = (cur.layer = "bronze" /\ e = "none"
                                            /\ BronzeWarns(tmp))]
          /\ pc' = IF e = "none" THEN "copy" ELSE "raised"
          /\ unmarked' = IF e = "none" THEN unmarked ELSE LeftUnmarked(cur.key)
    /\ UNCHANGED <<data, silver, gold, meta, now, tmp, stable>>
    /\ UNCHANGED fetchVars

Copy ==
    /\ pc = "copy"
    /\ LET layer == cur.layer
           target == Output(layer)
       IN IF CopyRaises(target, Overwrites(layer))
          THEN /\ pc' = "raised"
               /\ cur' = [cur EXCEPT !.err = "IOException"]
               /\ unmarked' = LeftUnmarked(cur.key)
               /\ UNCHANGED <<data, silver, gold, stable>>
          ELSE LET written == CopyResult(target, cur.key, tmp, Overwrites(layer))
               IN /\ pc' = "mark"
                  /\ cur' = cur
                  /\ unmarked' = unmarked
                  /\ data' = IF layer = "bronze" THEN written ELSE data
                  /\ silver' = IF layer = "silver" THEN written ELSE silver
                  /\ gold' = IF layer = "gold" THEN written ELSE gold
                  /\ stable' = [l \in Layers |->
                                  IF layer = "bronze" /\ l \in {"bronze", "silver"} THEN FALSE
                                  ELSE IF layer = "silver" /\ l = "gold" THEN FALSE
                                  ELSE stable[l]]
    /\ UNCHANGED <<meta, now, tmp>>
    /\ UNCHANGED fetchVars

Mark ==
    /\ pc = "mark"
    /\ meta' = Upsert(meta, cur.layer, cur.key, now)
    /\ cur' = [cur EXCEPT !.marked = @ \cup {cur.key},
                           !.replaced = ProcessedAt(meta, cur.layer, cur.key)]
    /\ pc' = "loop"
    /\ unmarked' = IF unmarked = [layer |-> cur.layer, key |-> cur.key]
                    THEN NoneLeft ELSE unmarked
    /\ UNCHANGED <<data, silver, gold, now, tmp, stable>>
    /\ UNCHANGED fetchVars

\* The for loop is exhausted: run() (or the single call) returns.
Finish ==
    /\ pc = "loop"
    /\ cur.todo = {}
    /\ pc' = "done"
    /\ UNCHANGED <<data, silver, gold, meta, now, cur, tmp, stable, unmarked>>
    /\ UNCHANGED fetchVars

\* Control is back at the caller, with the result or the exception.
Return ==
    /\ pc \in {"done", "raised"}
    /\ pc' = "idle"
    /\ cur' = NoCall
    /\ tmp' = EmptyRows
    /\ stable' = IF pc = "done" /\ cur.mode = "run" /\ ~cur.fr
                 THEN [stable EXCEPT ![cur.layer] = TRUE]
                 ELSE stable
    /\ UNCHANGED <<data, silver, gold, meta, now, unmarked>>
    /\ UNCHANGED fetchVars

\* The process dies between two statements; files and the table stay.
Crash ==
    /\ pc \in {"loop", "validate", "copy", "mark"}
    /\ pc' = "idle"
    /\ cur' = NoCall
    /\ tmp' = EmptyRows
    /\ unmarked' = IF pc = "loop" THEN unmarked ELSE LeftUnmarked(cur.key)
    /\ UNCHANGED <<data, silver, gold, meta, now, stable>>
    /\ UNCHANGED fetchVars

Tick ==
    /\ pc = "idle"
    /\ now < MaxTime
    /\ now' = now + 1
    /\ UNCHANGED <<data, silver, gold, meta, pc, cur, tmp, stable, unmarked>>
    /\ UNCHANGED fetchVars

Next ==
    \/ InitializeMetadata
    \/ BronzeRun
    \/ SilverRun
    \/ SilverRunFullRefresh
    \/ GoldRun
    \/ ProcessPartitionCall
    \/ CreateTmp
    \/ Validate
    \/ Copy
    \/ Mark
    \/ Finish
    \/ Return
    \/ Crash
    \/ Tick

Spec == Init /\ [][Next]_vars

\* ======================================================== ingestion
\* How one HTTP request ends: a response with a 2xx status, a connect / read
\* timeout, or a response whose status makes raise_for_status() raise.
Outcomes == {"ok", "timeout", "status"}

InitFetch ==
    /\ data = EmptyDataset
    /\ silver = EmptyDataset
    /\ gold = EmptyDataset
    /\ meta = {}
    /\ now = 0
    /\ pc = "idle"
    /\ cur = NoCall
    /\ tmp = EmptyRows
    /\ stable = [l \in Layers |-> FALSE]
    /\ unmarked = NoneLeft
    /\ client \in {"ingestion", "main"}
    /\ attempts = [l \in Locations |-> 0]
    /\ task = [l \in Locations |-> "running"]
    /\ lastErr = [l \in Locations |-> "none"]
    /\ batch = "running"
    /\ results = {}
    /\ phase = IF client = "main" THEN "extract" ELSE "none"
    /\ loaded = {}
    /\ shutdown = FALSE

\* A test for the last attempt that no value of range(retries) passes.
LastAttempt_off_by_one(attempt) == attempt = retries

\* if attempt == retries - 1: raise
LastAttempt(attempt) == attempt = retries - 1

\* ingestion.fetch_weather: what the loop body does with the outcome of
\* request number n (1-based), attempt = n - 1 in range(retries): only the
\* two timeout classes are caught, and the last attempt re-raises.  A loop
\* that ran out of attempts without returning or raising would fall off the
\* end of the function, which returns None.
IngestionAfter(n, outcome) ==
    LET attempt == n - 1
    IN IF outcome = "ok" THEN "returned"
       ELSE IF outcome # "timeout" THEN "raised"
       ELSE IF LastAttempt(attempt) THEN "raised"
       ELSE IF attempt + 1 < retries THEN "running"
       ELSE "returned_none"

\* main.fetch_weather under tenacity: retry_if_exception_type(Exception),
\* stop_after_attempt(MAX_RETRIES).
MainAfter(n, outcome) ==
    IF outcome = "ok" THEN "returned"
    ELSE IF n < MAX_RETRIES THEN "running"
    ELSE "raised"

Request(l, outcome, after) ==
    /\ batch = "running"
    /\ task[l] = "running"
    /\ attempts' = [attempts EXCEPT ![l] = @ + 1]
    /\ task' = [task EXCEPT ![l] = after]
    /\ lastErr' = [lastErr EXCEPT ![l] = IF outcome = "ok" THEN "none" ELSE outcome]
    /\ UNCHANGED <<client, batch, results, phase, loaded, shutdown>>
    /\ UNCHANGED layerVars

IngestionFetchWeather ==
    /\ client = "ingestion"
    /\ \E l \in Locations : \E o \in Outcomes : Request(l, o, IngestionAfter(attempts[l] + 1, o))

MainFetchWeather ==
    /\ client = "main"
    /\ \E l \in Locations : \E o \in Outcomes : Request(l, o, MainAfter(attempts[l] + 1, o))

\* fetch_multiple: asyncio.gather(*tasks) raises the first exception of a task
\* to the awaiting caller; otherwise dict(results) of all of them, which
\* raises TypeError on a result that is None.
GatherResult ==
    IF \E l \in Locations : task[l] = "raised" THEN "raised"
    ELSE IF \E l \in Locations : task[l] = "running" THEN "running"
    ELSE IF \A l \in Locations : task[l] = "returned" THEN "returned"
    ELSE "raised"

FetchMultiple ==
    /\ client = "ingestion"
    /\ batch = "running"
    /\ GatherResult # "running"
    /\ batch' = GatherResult
    /\ results' = IF GatherResult = "returned" THEN Locations ELSE {}
    /\ UNCHANGED <<client, attempts, task, lastErr, phase, loaded, shutdown>>
    /\ UNCHANGED layerVars

\* extract_weather: gather(..., return_exceptions=True) waits for every task;
\* the results that are exceptions are logged and left out.
ExtractWeather ==
    /\ client = "main"
    /\ batch = "running"
    /\ \A l \in Locations : task[l] # "running"
    /\ batch' = "returned"
    /\ results' = {l \in Locations : task[l] = "returned"}
    /\ UNCHANGED <<client, attempts, task, lastErr, phase, loaded, shutdown>>
    /\ UNCHANGED layerVars

\* ------------------------------------------------------ run_pipeline
\* run_pipeline without its "if not extracted: return".
AfterExtract_no_check(extracted) == "transform"

\* extracted = await extract_weather(); if not extracted: return
AfterExtract(extracted) == IF extracted = {} THEN "ended" ELSE "transform"

RunPipelineExtracted ==
    /\ phase = "extract"
    /\ batch = "returned"
    /\ phase' = AfterExtract(results)
    /\ UNCHANGED <<client, attempts, task, lastErr, batch, results, loaded, shutdown>>
    /\ UNCHANGED layerVars

\* list(pool.map(transform, extracted)): transform raises ValueError for a
\* payload without "current_weather", and the exception leaves run_pipeline.
RunPipelineTransform ==
    /\ phase = "transform"
    /\ \E payloads_ok \in BOOLEAN :
         /\ (~payloads_ok) => results # {}
         /\ phase' = IF payloads_ok THEN "load" ELSE "raised"
    /\ UNCHANGED <<client, attempts, task, lastErr, batch, results, loaded, shutdown>>
    /\ UNCHANGED layerVars

\* write_city_partition(df): one weather.parquet per city of df; a DataFrame
\* built from no record has no "city" column and df["city"] raises KeyError.
RunPipelineLoad ==
    /\ phase = "load"
    /\ IF results = {}
       THEN phase' = "raised" /\ loaded' = loaded
       ELSE phase' = "ended" /\ loaded' = loaded \cup results
    /\ UNCHANGED <<client, attempts, task, lastErr, batch, results, shutdown>>
    /\ UNCHANGED layerVars

\* SIGINT / SIGTERM: the handler main.py installs sets shutdown_event.
HandleShutdown ==
    /\ client = "main"
    /\ phase \in {"extract", "transform", "load"}
    /\ ~shutdown
    /\ shutdown' = TRUE
    /\ UNCHANGED <<client, attempts, task, lastErr, batch, results, phase, loaded>>
    /\ UNCHANGED layerVars

NextFetch ==
    \/ IngestionFetchWeather
    \/ MainFetchWeather
    \/ FetchMultiple
    \/ ExtractWeather
    \/ RunPipelineExtracted
    \/ RunPipelineTransform
    \/ RunPipelineLoad
    \/ HandleShutdown

SpecFetch == InitFetch /\ [][NextFetch]_vars

\* =========================================================== claims
HasPartition(layer, k) == DOMAIN Output(layer)[k] # {}

\* C1: whenever pipeline_metadata holds a watermark for (layer, key), the
\* layer's output partition for that key exists and is non-empty.
C1_CommitOrdering ==
    \A m \in meta : HasPartition(m.layer, m.key)

\* C2: when a layer run ends because one partition raised the empty-result
\* ValueError, every other partition that was pending in that run has been
\* written and watermarked by the run.
C2_PartitionIsolation ==
    (pc = "raised" /\ cur.mode = "run" /\ cur.err = "ValueError: empty")
        => \A k \in cur.pend \ {cur.key} : k \in cur.marked

\* C3: an incremental run that starts after an incremental run of the same
\* layer returned, with the layer's upstream untouched in between, computes
\* an empty pending set, calls process_partition for no key and does not raise.
C3_Idempotency ==
    (pc # "idle" /\ cur.mode = "run" /\ ~cur.fr /\ cur.again)
        => /\ cur.pend = {}
           /\ cur.called = {}
           /\ pc \in {"loop", "done"}

\* C3 witness: a second incremental Silver run over a non-empty data/ has
\* returned, with Silver watermarks in the table.
C3_Witness ==
    /\ pc = "done"
    /\ cur.layer = "silver"
    /\ cur.mode = "run"
    /\ cur.again
    /\ cur.avail # {}
    /\ get_processed_partitions("silver") # {}

\* C4: a gold watermark for a key exists only if a silver watermark for that
\* key exists.
C4_LayerOrdering ==
    \A m \in meta :
        m.layer = "gold" => m.key \in get_processed_partitions("silver")

\* C5: when a run with full_refresh=true ends, every partition discovered in
\* the layer's upstream was processed, written and watermarked by that run.
C5_FullRefresh ==
    (pc \in {"done", "raised"} /\ cur.mode = "run" /\ cur.fr)
        => \A k \in Discover(Upstream(cur.layer)) :
              k \in cur.called /\ k \in cur.marked

\* C6: a process_partition whose in-flight result has zero rows fails with
\* the empty-result ValueError and leaves every dataset and pipeline_metadata
\* as they were; a step that changes a dataset or the table is only ever
\* taken by a call whose in-flight result has rows.
C6_EmptyResultGate ==
    [][/\ (pc = "validate" /\ RowCount(tmp) = 0)
            => /\ pc' \in {"raised", "idle"}
               /\ pc' = "raised" => cur'.err = "ValueError: empty"
               /\ UNCHANGED <<data, silver, gold, meta>>
       /\ (<<data, silver, gold, meta>>' # <<data, silver, gold, meta>>)
            => RowCount(tmp) > 0]_vars

\* C6 witness: a Silver run's process_partition has raised on an empty
\* tmp_silver (every row of the key has a NULL temperature_2m).
C6_Witness ==
    /\ pc = "raised"
    /\ cur.layer = "silver"
    /\ cur.mode = "run"
    /\ cur.err = "ValueError: empty"
    /\ RowCount(tmp) = 0
    /\ DOMAIN data[cur.key] # {}

NullMeasurement(r) ==
    \/ r.avg_temp = Null
    \/ r.max_temp = Null
    \/ r.min_temp = Null
    \/ r.avg_humidity = Null

\* C7: no row with a NULL aggregated measurement (avg_temp, max_temp,
\* min_temp, avg_humidity) is ever written to the Gold output.
C7_GoldNullGate ==
    \A k \in Keys : \A r \in DOMAIN gold[k] : ~NullMeasurement(r)

\* C8: a layer run that starts while its upstream dataset holds no file
\* discovers the empty set and returns normally, with nothing processed and
\* pipeline_metadata unchanged.
C8_MissingUpstream ==
    [][(pc = "idle" /\ pc' # "idle" /\ cur'.mode = "run" /\ cur'.err # "TypeError"
          /\ ~HasFiles(Upstream(cur'.layer)))
         => /\ pc' \in {"loop", "done"}
            /\ cur'.pend = {}
            /\ meta' = meta]_vars

\* C9: a location's fetch issues at most 3 requests; a request after the
\* first is issued only when the previous one timed out; a failure that is
\* not a timeout, and the third timeout, end the fetch with an exception.
C9_TimeoutOnlyRetry ==
    [][\A l \in Locations :
         /\ attempts'[l] <= 3
         /\ (attempts'[l] > attempts[l] /\ attempts[l] > 0) => lastErr[l] = "timeout"
         /\ (attempts'[l] > attempts[l] /\ lastErr'[l] = "status") => task'[l] = "raised"
         /\ (attempts'[l] = 3 /\ lastErr'[l] = "timeout") => task'[l] = "raised"]_vars

\* C10: when some location's fetch has failed after its third attempt, the
\* batch does not raise, and what it returns is exactly the set of locations
\* whose fetch succeeded.
C10_PartialSuccess ==
    (\E l \in Locations : task[l] = "raised" /\ attempts[l] = 3)
        => /\ batch # "raised"
           /\ batch = "returned" => results = {l \in Locations : task[l] = "returned"}

\* C11: a process_partition that reaches its COPY for a key already
\* watermarked at its layer (the key is being processed a second time) goes
\* on to its watermark, and the key's output partition then holds exactly the
\* in-flight rows: nothing of the earlier write remains and nothing is refused.
C11_ReprocessOverwrites ==
    [][(pc = "copy" /\ pc' # "idle"
          /\ cur.key \in get_processed_partitions(cur.layer))
         => /\ pc' = "mark"
            /\ Output(cur.layer)'[cur.key] = tmp]_vars

\* C12: an incremental run calls process_partition for no key that has a
\* watermark at its layer, and every key that an earlier incremental run of
\* the layer left before its watermark is in the pending set the run computes.
C12_AtMostOnceSafeRetry ==
    [][/\ (pc = "loop" /\ pc' \in {"validate", "raised"} /\ cur.mode = "run" /\ ~cur.fr)
            => cur'.key \notin get_processed_partitions(cur.layer)
       /\ (pc = "idle" /\ pc' # "idle" /\ cur'.mode = "run" /\ ~cur'.fr)
            => (unmarked.layer = cur'.layer => unmarked.key \in cur'.pend)]_vars

\* C13: pipeline_metadata holds at most one record per (layer, key), and
\* every key the call in progress has marked has the record with the
\* timestamp of that marking, whether or not it had a record before.
C13_WatermarkUpsert ==
    /\ \A x \in meta : \A y \in meta :
          (x.layer = y.layer /\ x.key = y.key) => x = y
    /\ \A k \in cur.marked :
          [layer |-> cur.layer, key |-> k, processed_at |-> now] \in meta

\* C13 witness: a process_partition has just marked a key whose record held
\* an earlier timestamp; the key has one record, with the new timestamp.
C13_Witness ==
    /\ pc = "loop"
    /\ cur.key \in cur.marked
    /\ cur.replaced # NoTime
    /\ cur.replaced < now
    /\ {x.processed_at : x \in {y \in meta : y.layer = cur.layer /\ y.key = cur.key}} = {now}

\* C14: when extract_weather has returned no result for any location,
\* run_pipeline is still in, or has returned from, its extract phase: it is
\* never in the transform or load phase, has not raised, and has written no
\* partition file.
C14_EmptyFetch ==
    (client = "main" /\ batch = "returned" /\ results = {})
        => /\ phase \in {"extract", "ended"}
           /\ loaded = {}

\* C14 witness: every location's fetch failed and run_pipeline has returned.
C14_Witness ==
    /\ client = "main"
    /\ \A l \in Locations : task[l] = "raised"
    /\ batch = "returned"
    /\ results = {}
    /\ phase = "ended"
    /\ loaded = {}

\* C15: a step of process_partition for key k at a layer leaves the output
\* partition of every other (layer, key) and the pipeline_metadata records of
\* every other (layer, key) as they were.
C15_FrameCondition ==
    [][(pc \in {"validate", "copy", "mark"})
         => (/\ \A l \in Layers : \A k \in Keys :
                   (l # cur.layer \/ k # cur.key) => Output(l)'[k] = Output(l)[k]
             /\ \A x \in meta \cup meta' :
                   (x.layer # cur.layer \/ x.key # cur.key) => x \in meta \cap meta')]_vars

\* C16: a bronze.process_partition whose tmp_bronze has rows, some with a
\* NULL temperature, passes validation with a warning only, and then writes
\* its partition and goes on to record the watermark.
C16_BronzeSoftWarning ==
    [][/\ (pc = "validate" /\ cur.layer = "bronze" /\ RowCount(tmp) > 0
              /\ BronzeWarns(tmp) /\ pc' # "idle")
            => (pc' = "copy" /\ cur'.warned)
       /\ (pc = "copy" /\ cur.layer = "bronze" /\ cur.warned /\ pc' # "idle")
            => (pc' = "mark" /\ DOMAIN data'[cur.key] # {})
       /\ (pc = "mark" /\ cur.layer = "bronze" /\ cur.warned /\ pc' # "idle")
            => cur.key \in get_processed_partitions("bronze")']_vars

\* C17: once shutdown_event is set, run_pipeline enters no further phase:
\* a step taken after the signal never starts the transform or the load
\* phase (the phase in flight may end, with a return or an exception).
C17_GracefulShutdown ==
    [][(shutdown /\ phase' # phase) => phase' \notin {"transform", "load"}]_vars

\* C18: in ingestion.fetch_weather a location's fetch issues at most 3
\* requests and has ended once the third is answered; it ends by returning
\* the pair of a successful response or by raising, never by returning
\* None; what fetch_multiple returns is built from returned pairs only.
C18_FetchTerminates ==
    client = "ingestion"
        => /\ \A l \in Locations :
                /\ attempts[l] <= 3
                /\ task[l] \in {"running", "returned", "raised"}
                /\ attempts[l] = 3 => task[l] # "running"
                /\ task[l] = "returned" => lastErr[l] = "none"
                /\ task[l] = "raised" => lastErr[l] # "none"
           /\ batch = "returned" => \A l \in results : task[l] = "returned"

\* C18 witness: one fetch has raised on its third timeout and another has
\* returned the response of its third request.
C18_Witness ==
    /\ client = "ingestion"
    /\ \E l \in Locations :
         attempts[l] = 3 /\ task[l] = "raised" /\ lastErr[l] = "timeout"
    /\ \E l \in Locations : attempts[l] = 3 /\ task[l] = "returned"

\* C19: no step removes a watermark: every (layer, key) that has a record
\* in pipeline_metadata before a step has one after it.
C19_WatermarksMonotone ==
    [][\A x \in meta : \E y \in meta' : y.layer = x.layer /\ y.key = x.key]_vars

\* C19 witness: initialize_metadata has been called again on a store that
\* holds watermarks, after an incremental run left a key before its INSERT.
C19_Witness ==
    /\ pc = "done"
    /\ cur.mode = "init"
    /\ meta # {}
    /\ unmarked # NoneLeft

====
